---- MODULE Spec2Model ----
(***************************************************************************)
(* A model of lectern's extraction front end (src/lectern/extract.py):     *)
(* the directive regex and its per-instance cache, the plain-text and      *)
(* embedded splitters, the markdown token cascade and the dispatcher.      *)
(*                                                                         *)
(* Strings are sequences of one-symbol strings; "NL" is the line feed.     *)
(***************************************************************************)
EXTENDS Integers, Sequences, FiniteSets, TLC

VARIABLES
    cache,        \* per extractor instance: its directives dict and its regex
    compiles,     \* per extractor instance: the calls of compile_regex so far
    call,         \* the last get_regex call: instance, argument, result, cache before
    source,       \* the text handed to a text extractor's parse_fragments
    embedded,     \* TRUE for EmbeddedExtractor, FALSE for TextExtractor
    tpc,          \* "ready" before parse_fragments is consumed, "done" after
    fragments,    \* the fragments the text generator yielded, in order
    link,         \* the raw reference handed to create_link_fragment
    external_files, \* the base directory handed to it, or None
    linkFragment, \* the fragment create_link_fragment returned, or NoFragment
    tokens,       \* the token list the markdown parser returned
    directives,   \* the mapping handed to extract or apply_directives
    input,        \* the fragments handed to apply_directives as a list
    mpc,          \* where extract / apply_directives stands
    i,            \* the index of the for loop over the tokens (or the list)
    skip,         \* the local skip of MarkdownExtractor.parse_fragments
    embq,         \* what the embedded generator of a `yield from` has left
    queue,        \* the fragments yielded and not yet handed to a handler
    produced,     \* every fragment yielded so far, in order
    invoked,      \* every fragment handed to a handler so far, in order
    assets,       \* the output collections: the handlers' mutations, in order
    trace         \* one entry per token position the cascade examined

cacheVars == <<cache, compiles, call>>

textVars == <<source, embedded, tpc, fragments>>

linkVars == <<link, external_files, linkFragment>>

mdVars == <<tokens, i, skip, embq, trace>>

applyVars == <<directives, input, mpc, queue, produced, invoked, assets>>

vars == <<cacheVars, textVars, linkVars, mdVars, applyVars>>

\* ------------------------------------------------------------------ bounds

\* Longest text handed to the plain-text extractor.
MaxLen == 5

\* Most get_regex calls in one run of the cache specification.
MaxCalls == 3

\* Longest raw reference handed to create_link_fragment.
MaxLinkLen == 4

\* Most blocks (paragraphs, code blocks, HTML blocks) of a markdown document.
MaxBlocks == 4

\* Most fragments in the list handed to apply_directives.
MaxFragments == 3

\* ----------------------------------------------------------------- strings

\* Python's None, as a value no string of the model equals.
None == <<"<None>">>

NL == "NL"

WordChars == {"a", "b", "x"}

SpaceChars == {" ", NL}

IsWord(c) == c \in WordChars

IsSpace(c) == c \in SpaceChars

\* s[p], or a non-word, non-space symbol outside the string.
CharAt(s, p) == IF p >= 1 /\ p <= Len(s) THEN s[p] ELSE "<end>"

Slice(s, from, to) == IF from > to THEN << >> ELSE SubSeq(s, from, to)

\* The least index >= p satisfying the test, or Len(s) + 1.
RECURSIVE SkipSpaces(_, _)
SkipSpaces(s, p) ==
    IF p <= Len(s) /\ IsSpace(s[p]) THEN SkipSpaces(s, p + 1) ELSE p

RECURSIVE IndexOf(_, _, _)
IndexOf(s, c, p) ==
    IF p > Len(s) THEN Len(s) + 1
    ELSE IF s[p] = c THEN p ELSE IndexOf(s, c, p + 1)

StartsWithAt(s, p, pre) ==
    /\ p + Len(pre) - 1 <= Len(s)
    /\ \A k \in 1..Len(pre) : s[p + k - 1] = pre[k]

EndsWith(s, c) == Len(s) > 0 /\ s[Len(s)] = c

\* str.split(): the maximal runs of non-whitespace, in order.
RECURSIVE SplitWs(_)
SplitWs(s) ==
    LET b == SkipSpaces(s, 1)
        e == CHOOSE k \in b..(Len(s) + 1) :
                 /\ \A j \in b..(k - 1) : ~IsSpace(s[j])
                 /\ (k = Len(s) + 1 \/ IsSpace(s[k]))
    IN IF b > Len(s) THEN << >>
       ELSE <<Slice(s, b, e - 1)>> \o SplitWs(Slice(s, e, Len(s)))

\* str.partition("\n")[-1]: what follows the first line feed, "" without one.
PartitionLast(s) == Slice(s, IndexOf(s, NL, 1) + 1, Len(s))

\* ------------------------------------------------------------------- regex

\* A compiled pattern: the directive names in the order generate_regex joined
\* them, and whether the embedded comment prefix is required.
Pattern(names, prefix) == [names |-> names, prefix |-> prefix]

\* ^ under re.MULTILINE.
AtLineStart(s, p) == p = 1 \/ s[p - 1] = NL

\* \b at p: exactly one of the symbols before and at p is a word character.
Boundary(s, p) == IsWord(CharAt(s, p - 1)) # IsWord(CharAt(s, p))

\* A prefix that lets whitespace precede the marker: \s*(?://|#)\s*.
AfterPrefixIndented(s, p) ==
    LET j == SkipSpaces(s, p)
    IN IF CharAt(s, j) = "#" THEN SkipSpaces(s, j + 1)
       ELSE IF CharAt(s, j) = "/" /\ CharAt(s, j + 1) = "/" THEN SkipSpaces(s, j + 2)
       ELSE 0

\* (?://|#)\s* of EmbeddedExtractor.generate_regex: the position after it, or 0.
AfterPrefix(s, p) ==
    IF CharAt(s, p) = "#" THEN SkipSpaces(s, p + 1)
    ELSE IF CharAt(s, p) = "/" /\ CharAt(s, p + 1) = "/" THEN SkipSpaces(s, p + 2)
    ELSE 0

\* (?:\((?P<modifier>[^)]*)\)|\b) can match at r.
ModifierOk(s, r) ==
    \/ CharAt(s, r) = "(" /\ IndexOf(s, ")", r + 1) <= Len(s)
    \/ Boundary(s, r)

\* The parenthesised alternative is tried first; [^)]* stops at the first ")".
HasModifier(s, r) == CharAt(s, r) = "(" /\ IndexOf(s, ")", r + 1) <= Len(s)

NoMatch == [start |-> 0, end |-> 0, groups |-> << >>]

Least(S) == CHOOSE n \in S : \A m \in S : n <= m

\* (?P<arguments>.*)$ from a: the rest of the line; the match ends at e.
MatchArguments(s, p, name, modifier, a, e) ==
    [start |-> p, end |-> e, groups |-> << name, modifier, Slice(s, a, e - 1) >>]

\* The modifier group at r: the parenthesised text up to the first ")" at
\* close, or nothing where only \b matched; the arguments follow.
MatchModifier(s, p, name, r, close) ==
    IF HasModifier(s, r)
    THEN MatchArguments(s, p, name, Slice(s, r + 1, close - 1), close + 1,
                        IndexOf(s, NL, close + 1))
    ELSE MatchArguments(s, p, name, None, r, IndexOf(s, NL, r))

\* (?P<name>a|b|...) at n: the alternation takes the first name, in order, after
\* which the rest of the pattern matches; "|".join of no names is the empty
\* alternative.
MatchName(names, s, p, n, cands) ==
    IF Len(names) = 0
    THEN (IF ModifierOk(s, n) THEN MatchModifier(s, p, << >>, n, IndexOf(s, ")", n + 1))
          ELSE NoMatch)
    ELSE IF cands = {} THEN NoMatch
    ELSE MatchModifier(s, p, names[Least(cands)], n + Len(names[Least(cands)]),
                       IndexOf(s, ")", n + Len(names[Least(cands)]) + 1))

\* The "@" at q, where the comment prefix (if any) ended; q = 0 without it.
MatchDirective(pat, s, p, q) ==
    IF q # 0 /\ CharAt(s, q) = "@"
    THEN MatchName(pat.names, s, p, q + 1,
                   {k \in 1..Len(pat.names) :
                       /\ StartsWithAt(s, q + 1, pat.names[k])
                       /\ ModifierOk(s, q + 1 + Len(pat.names[k]))})
    ELSE NoMatch

\* pattern.match at p of ^[prefix]@(name)(modifier)(arguments)$: the span
\* [start, end) and the groups (name, modifier, arguments), or NoMatch.
MatchAt(pat, s, p) ==
    IF AtLineStart(s, p)
    THEN MatchDirective(pat, s, p, IF pat.prefix THEN AfterPrefix(s, p) ELSE p)
    ELSE NoMatch

\* pattern.search from p: the leftmost match starting at p or later.
RECURSIVE SearchFrom(_, _, _)
SearchStep(pat, s, p, m) == IF m # NoMatch THEN m ELSE SearchFrom(pat, s, p + 1)

SearchFrom(pat, s, p) ==
    IF p > Len(s) THEN NoMatch ELSE SearchStep(pat, s, p, MatchAt(pat, s, p))

\* pattern.split(s): the text between the matches, each match replaced by its
\* three groups.
RECURSIVE SplitFrom(_, _, _)
SplitStep(pat, s, p, m) ==
    IF m = NoMatch THEN << Slice(s, p, Len(s)) >>
    ELSE << Slice(s, p, m.start - 1) >> \o m.groups \o SplitFrom(pat, s, m.end)

SplitFrom(pat, s, p) == SplitStep(pat, s, p, SearchFrom(pat, s, p))

RegexSplit(pat, s) == SplitFrom(pat, s, 1)

\* --------------------------------------------------------------- Extractor

\* The extractor instances: a TextExtractor, a MarkdownExtractor and the
\* EmbeddedExtractor the MarkdownExtractor owns.
Instances == {"text", "md", "emb"}

\* A Mapping[str, Directive] is a sequence of <<name, handler>> pairs with
\* distinct names, in insertion order.
Keys(d) == [ix \in 1..Len(d) |-> d[ix][1]]

KeySet(d) == {d[ix][1] : ix \in 1..Len(d)}

Items(d) == {d[ix] : ix \in 1..Len(d)}

HasKey(d, name) == name \in KeySet(d)

\* dict.__eq__: the same keys with equal values, whatever the order.
DictEq(d1, d2) == Items(d1) = Items(d2)

\* self.regex = None
NoRegex == [names |-> <<None>>, prefix |-> FALSE]

\* Extractor.__init__
NewExtractor == [directives |-> << >>, regex |-> NoRegex]

\* generate_regex joins the names of self.directives in order; the embedded
\* extractor prepends the comment prefix. compile_regex anchors the result.
GenerateRegex(self, dirs) == Pattern(Keys(dirs), self = "emb")

\* A get_regex that compiles once and never looks at the mapping again.
NeedsCompileOnce(c, dirs) == c.regex = NoRegex

\* The condition of get_regex under which it stores and compiles.
NeedsCompile(c, dirs) ==
    c.regex = NoRegex \/ ~DictEq(c.directives, dirs)

\* The instance's state after get_regex(directives).
GetRegexState(self, c, dirs) ==
    IF NeedsCompile(c, dirs)
    THEN [directives |-> dirs, regex |-> GenerateRegex(self, dirs)]
    ELSE c

\* get_regex as a step on the shared state: the cache, the compile count and
\* the record of the call.
GetRegex(self, dirs) ==
    /\ cache' = [cache EXCEPT ![self] = GetRegexState(self, cache[self], dirs)]
    /\ compiles' = [compiles EXCEPT ![self] =
                       IF NeedsCompile(cache[self], dirs) THEN @ + 1 ELSE @]
    /\ call' = [self |-> self, directives |-> dirs,
                before |-> cache[self],
                compiled |-> NeedsCompile(cache[self], dirs),
                result |-> GetRegexState(self, cache[self], dirs).regex,
                n |-> call.n + 1]

\* ---------------------------------------------------------------- fragment

Fragment(directive, modifier, arguments, content, url, path) ==
    [directive |-> directive, modifier |-> modifier, arguments |-> arguments,
     content |-> content, url |-> url, path |-> path]

\* Extractor.create_fragment: the groups of the match and the keyword arguments.
CreateFragment(match, content, url, path) ==
    Fragment(match.groups[1], match.groups[2], SplitWs(match.groups[3]),
             content, url, path)

\* ------------------------------------------------------------ link fragments

HexDigits == {"3", "A"}

\* The character of one escaped byte: %33 is "3" and %3A is ":"; bytes from
\* 0x80 on are not UTF-8 on their own and decode to the replacement character.
DecodeByte(hi, lo) ==
    IF hi = "3" THEN (IF lo = "3" THEN "3" ELSE ":") ELSE "<?>"

\* urllib.parse.unquote: every %XX with two hex digits is decoded, anything
\* else is kept.
RECURSIVE Unquote(_)
Unquote(s) ==
    IF s = << >> THEN << >>
    ELSE IF s[1] = "%" /\ Len(s) >= 3 /\ s[2] \in HexDigits /\ s[3] \in HexDigits
    THEN << DecodeByte(s[2], s[3]) >> \o Unquote(Slice(s, 4, Len(s)))
    ELSE << s[1] >> \o Unquote(Slice(s, 2, Len(s)))

SchemeChars == {"s", "A", "3"}

\* A scheme prefix: a non-empty run of scheme characters and a colon.
HasScheme(url) ==
    \E ix \in 2..Len(url) :
        url[ix] = ":" /\ \A k \in 1..(ix - 1) : url[k] \in SchemeChars

\* lectern.utils.is_path: the string has no scheme prefix.
IsPath(url) == ~HasScheme(url)

\* `if external_files:` holds for neither None nor the empty string.
Truthy(v) == v # None /\ v # << >>

\* Path(external_files, url).resolve(): an absolute url replaces the base.
ResolvePath(base, url) ==
    IF CharAt(url, 1) = "/" THEN url ELSE base \o <<"/">> \o url

\* A create_link_fragment that gives up the url only once a path replaces it.
CreateLinkFragmentKeepUrl(match, lnk, ext) ==
    LET url == Unquote(lnk)
    IN IF IsPath(url) /\ Truthy(ext)
       THEN CreateFragment(match, None, None, ResolvePath(ext, url))
       ELSE CreateFragment(match, None, url, None)

\* MarkdownExtractor.create_link_fragment
CreateLinkFragment(match, lnk, ext) ==
    LET url == Unquote(lnk)
    IN IF IsPath(url)
       THEN CreateFragment(match, None, None,
                           IF Truthy(ext) THEN ResolvePath(ext, url) ELSE None)
       ELSE CreateFragment(match, None, url, None)

\* ------------------------------------------------------------ TextExtractor

\* content[:-1] if content.endswith("\n") else content
StripOneNewline(content) ==
    IF EndsWith(content, NL) THEN Slice(content, 1, Len(content) - 1) ELSE content

\* The loop of TextExtractor.parse_fragments over the split tokens: next(it)
\* drops the first, islice(it, 4) takes the groups and the body of each match, and
\* a short last group ends the generator.
RECURSIVE TextLoop(_, _)
TextLoop(parts, k) ==
    IF k + 3 > Len(parts) THEN << >>
    ELSE << Fragment(parts[k], parts[k + 1], SplitWs(parts[k + 2]),
                     StripOneNewline(PartitionLast(parts[k + 3])), None, None) >>
         \o TextLoop(parts, k + 4)

TextParseFragments(pat, src) == TextLoop(RegexSplit(pat, src \o <<NL>>), 2)

\* ------------------------------------------------------------ markdown tokens

\* A markdown_it Token: its type, its content and, for an inline token, its
\* children. A child carries the attribute attrGet reads (src or href).
Token(type, content, children) ==
    [type |-> type, content |-> content, children |-> children]

Child(type, content, attr) == [type |-> type, content |-> content, attr |-> attr]

\* A paragraph is always the triple paragraph_open, inline, paragraph_close.
Paragraph(children) ==
    << Token("paragraph_open", << >>, << >>),
       Token("inline", << >>, children),
       Token("paragraph_close", << >>, << >>) >>

\* `text`
CodeParagraph(text) == Paragraph(<< Child("code_inline", text, None) >>)

\* ![](src)
ImageParagraph(src) == Paragraph(<< Child("image", << >>, src) >>)

\* [`text`](href)
LinkParagraph(text, href) ==
    Paragraph(<< Child("link_open", << >>, href),
                 Child("code_inline", text, None),
                 Child("link_close", << >>, None) >>)

CodeBlock(type, content) == << Token(type, content, << >>) >>

HtmlBlock(content) == << Token("html_block", content, << >>) >>

DetailsOpen == <<"<details>", NL>>

DetailsClose == <<"</details>", NL>>

\* \s*--> at k.
ClosesAt(content, k) == CharAt(content, SkipSpaces(content, k)) = "-->"

\* (.+?) can take content[j..k]: no line feed in it, and \s*--> follows.
CommentGroup(content, j, k) ==
    /\ \A n \in j..k : content[n] # NL
    /\ ClosesAt(content, k + 1)

\* The group (.+?) starting at j: the shortest that lets the rest match.
ShortestGroup(content, j) ==
    Slice(content, j, Least({k \in j..Len(content) : CommentGroup(content, j, k)}))

\* The leading \s* is greedy and gives back: the group starts at the last
\* position of starts.
LongestSpaces(content, starts) ==
    IF starts = {} THEN None
    ELSE ShortestGroup(content, CHOOSE j \in starts : \A n \in starts : n <= j)

\* html_comment_regex.match(content) for <!--\s*(.+?)\s*-->: group 1, or None.
HtmlComment(content) ==
    IF CharAt(content, 1) = "<!--"
    THEN LongestSpaces(content,
             {j \in 2..SkipSpaces(content, 2) :
                 \E k \in j..Len(content) : CommentGroup(content, j, k)})
    ELSE None

\* ------------------------------------------------------- MarkdownExtractor

Min(a, b) == IF a < b THEN a ELSE b

\* tokens[i : i + n] of Python, on the 1-based list.
PySlice(toks, at, n) == Slice(toks, at, Min(at + n - 1, Len(toks)))

\* match_tokens: the number of tokens when every one has (one of) the expected
\* type(s), otherwise False, which counts as 0.
MatchTokens(toks, types) ==
    IF /\ Len(toks) = Len(types)
       /\ \A k \in 1..Len(types) : toks[k].type \in types[k]
    THEN Len(toks)
    ELSE 0

ParagraphTypes == << {"paragraph_open"}, {"inline"}, {"paragraph_close"} >>

CodeTypes == << {"fence", "code_block"} >>

HtmlTypes == << {"html_block"} >>

\* The token types each branch of the cascade hands to match_tokens.
ShapeTypes(k) ==
    CASE k = 1 -> ParagraphTypes \o CodeTypes
      [] k = 2 -> ParagraphTypes \o ParagraphTypes
      [] k = 3 -> ParagraphTypes \o HtmlTypes \o CodeTypes \o HtmlTypes
      [] k = 4 -> ParagraphTypes \o HtmlTypes \o ParagraphTypes \o HtmlTypes
      [] k = 5 -> ParagraphTypes
      [] k = 6 -> HtmlTypes \o CodeTypes
      [] k = 7 -> HtmlTypes \o ParagraphTypes
      [] k = 8 -> ParagraphTypes

\* skip := self.match_tokens(tokens[i : i + n], ...) of branch k.
Shape(toks, k, at) ==
    MatchTokens(PySlice(toks, at, Len(ShapeTypes(k))), ShapeTypes(k))

\* inline.children and self.match_tokens(inline.children, "code_inline")
IsCodeSpan(tok) ==
    tok.children # << >> /\ MatchTokens(tok.children, << {"code_inline"} >>) # 0

\* image.children and self.match_tokens(image.children, "image")
\*     and (link := image.children[0].attrGet("src"))
IsImage(tok) ==
    /\ tok.children # << >>
    /\ MatchTokens(tok.children, << {"image"} >>) # 0
    /\ Truthy(tok.children[1].attr)

\* inline.children and self.match_tokens(inline.children, "link_open",
\*     "code_inline", "link_close") and (link := ...attrGet("href"))
IsCodeLink(tok) ==
    /\ tok.children # << >>
    /\ MatchTokens(tok.children, << {"link_open"}, {"code_inline"}, {"link_close"} >>) # 0
    /\ Truthy(tok.children[1].attr)

\* regex.match(text) is not None
Matches(pat, text) == MatchAt(pat, text, 1) # NoMatch

\* (comment := html_comment_regex.match(token.content))
\*     and (match := regex.match(comment.group(1)))
IsCommentDirective(pat, tok) ==
    HtmlComment(tok.content) # None /\ Matches(pat, HtmlComment(tok.content))

\* The text branch k hands to regex.match: the code span of the paragraph
\* (the second child of a link), or group 1 of the HTML comment.
DirectiveText(toks, k, at) ==
    CASE k \in {1, 2, 3, 4, 8} -> toks[at + 1].children[1].content
      [] k = 5 -> toks[at + 1].children[2].content
      [] k \in {6, 7, 9} -> HtmlComment(toks[at].content)

\* What branch k asks of the tokens before it tries the regex.
Structure(toks, k, at) ==
    CASE k \in {1, 8} -> Shape(toks, k, at) # 0 /\ IsCodeSpan(toks[at + 1])
      [] k = 2 -> /\ Shape(toks, k, at) # 0
                  /\ IsCodeSpan(toks[at + 1])
                  /\ IsImage(toks[at + 4])
      [] k = 3 -> /\ Shape(toks, k, at) # 0
                  /\ IsCodeSpan(toks[at + 1])
                  /\ toks[at + 3].content = DetailsOpen
                  /\ toks[at + 5].content = DetailsClose
      [] k = 4 -> /\ Shape(toks, k, at) # 0
                  /\ IsCodeSpan(toks[at + 1])
                  /\ toks[at + 3].content = DetailsOpen
                  /\ toks[at + 7].content = DetailsClose
                  /\ IsImage(toks[at + 5])
      [] k = 5 -> Shape(toks, k, at) # 0 /\ IsCodeLink(toks[at + 1])
      [] k = 6 -> Shape(toks, k, at) # 0 /\ HtmlComment(toks[at].content) # None
      [] k = 7 -> /\ Shape(toks, k, at) # 0
                  /\ HtmlComment(toks[at].content) # None
                  /\ IsImage(toks[at + 2])
      [] k = 9 -> /\ toks[at].type = "html_block"
                  /\ HtmlComment(toks[at].content) # None

\* The whole condition of branch k of the if/elif chain, k in 1..10.
BranchHolds(pat, toks, k, at) ==
    IF k = 10 THEN toks[at].type \in {"fence", "code_block"}
    ELSE Structure(toks, k, at) /\ Matches(pat, DirectiveText(toks, k, at))

\* A cascade that tries the bare paragraph before the longer shapes.
BranchOrderBareFirst == <<8, 1, 2, 3, 4, 5, 6, 7, 9, 10>>

\* The order of the branches in the source.
BranchOrder == <<1, 2, 3, 4, 5, 6, 7, 8, 9, 10>>

FirstBranch(hits) == IF hits = {} THEN 0 ELSE BranchOrder[Least(hits)]

\* The branch the chain takes at a position, 0 when it takes none.
BranchTaken(pat, toks, at) ==
    FirstBranch({n \in 1..Len(BranchOrder) : BranchHolds(pat, toks, BranchOrder[n], at)})

\* The branches evaluated when `taken` is the one taken: all up to it.
Evaluated(taken) ==
    IF taken = 0 THEN 1..Len(BranchOrder)
    ELSE 1..(CHOOSE n \in 1..Len(BranchOrder) : BranchOrder[n] = taken)

LastOf(S) == CHOOSE n \in S : \A m \in S : m <= n

\* The value the walrus assignments leave in skip: every branch of 1..8 that
\* is evaluated assigns it, so it is the shape of the last of them evaluated,
\* the branch taken or the last one before a later branch (or none) is taken.
SkipAfter(toks, taken, at) ==
    Shape(toks, BranchOrder[LastOf({n \in Evaluated(taken) : BranchOrder[n] \in 1..8})], at)

\* The index of the token whose content the branch hands to create_fragment.
ContentIndex(k, at) ==
    CASE k = 1 -> at + 3
      [] k = 3 -> at + 4
      [] k = 6 -> at + 1
      [] OTHER -> 0

\* The reference branch k reads with attrGet: the src of the image, the href
\* of the link.
LinkIndex(k, at) ==
    CASE k = 2 -> at + 4
      [] k = 4 -> at + 5
      [] k = 5 -> at + 1
      [] k = 7 -> at + 2

\* The fragment branch k (1..9) yields from its match.
FragmentOf(match, toks, k, at, ext) ==
    IF k \in {2, 4, 5, 7}
    THEN CreateLinkFragment(match, toks[LinkIndex(k, at)].children[1].attr, ext)
    ELSE IF k \in {1, 3, 6}
    THEN CreateFragment(match, toks[ContentIndex(k, at)].content, None, None)
    ELSE CreateFragment(match, None, None, None)

BranchFragment(pat, toks, k, at, ext) ==
    FragmentOf(MatchAt(pat, DirectiveText(toks, k, at), 1), toks, k, at, ext)

\* next() on the generator before the fragment in hand went to its handler.
CanResumeAhead(q) == TRUE

\* The for loop of apply_directives asks the generator for the next fragment
\* only once the handler of the last one has returned.
CanResume(q) == q = << >>

\* directives[name]
Lookup(d, name) == (CHOOSE n \in 1..Len(d) : d[n][1] = name)

\* A loop that never passes over a token.
SkippingNever(s) == FALSE

\* A loop that passes over one token more than the match consumed.
SkippingOneMore(s) == s > 0

\* if skip > 1: the token belongs to the shape matched before.
Skipping(s) == s > 1

\* ------------------------------------------------------- idle components

NoCall == [self |-> "none", directives |-> << >>, before |-> NewExtractor,
           compiled |-> FALSE, result |-> NoRegex, n |-> 0]

NoFragment == Fragment(None, None, << >>, None, None, None)

InitCache ==
    /\ cache = [e \in Instances |-> NewExtractor]
    /\ compiles = [e \in Instances |-> 0]
    /\ call = NoCall

InitIdleText ==
    /\ source = << >>
    /\ embedded = FALSE
    /\ tpc = "idle"
    /\ fragments = << >>

InitIdleLink ==
    /\ link = << >>
    /\ external_files = None
    /\ linkFragment = NoFragment

InitIdleMd ==
    /\ tokens = << >>
    /\ i = 0
    /\ skip = 0
    /\ embq = << >>
    /\ trace = << >>

InitIdleApply ==
    /\ directives = << >>
    /\ input = << >>
    /\ mpc = "idle"
    /\ queue = << >>
    /\ produced = << >>
    /\ invoked = << >>
    /\ assets = << >>

\* ---------------------------------------------------- text specification

Handlers == {"h1", "h2"}

\* The symbols texts are drawn from.
Alphabet == {"@", "a", "x", " ", NL, "(", ")", "#", "/"}

Strings(n) == UNION {[1..k -> Alphabet] : k \in 0..n}

\* The directive mapping of the text runs.
TextDirectives == << <<<<"a">>, "h1">> >>

TextSelf == IF embedded THEN "emb" ELSE "text"

InitText ==
    /\ InitCache
    /\ source \in Strings(MaxLen)
    /\ embedded \in BOOLEAN
    /\ tpc = "ready"
    /\ fragments = << >>
    /\ InitIdleLink
    /\ InitIdleMd
    /\ InitIdleApply

\* list(extractor.parse_fragments(source, directives)) on a text extractor.
ParseText ==
    /\ tpc = "ready"
    /\ GetRegex(TextSelf, TextDirectives)
    /\ fragments' = TextParseFragments(call'.result, source)
    /\ tpc' = "done"
    /\ UNCHANGED <<source, embedded, linkVars, mdVars, applyVars>>

NextText == ParseText

SpecText == InitText /\ [][NextText]_vars


\* ------------------------------------------------- C5: plain-text extractor

\* The text the splitter works on: the source with a line feed appended.
TextOf(src) == src \o <<NL>>

LineEnd(t, p) == IndexOf(t, NL, p)

LineAt(t, p) == Slice(t, p, LineEnd(t, p) - 1)

\* The line starting at p, taken on its own, matches the directive pattern.
DirectiveLine(pat, t, p) ==
    AtLineStart(t, p) /\ MatchAt(pat, LineAt(t, p), 1) # NoMatch

NextDirectiveLine(pat, t, p) ==
    IF \E q \in (p + 1)..Len(t) : DirectiveLine(pat, t, q)
    THEN CHOOSE q \in (p + 1)..Len(t) :
             /\ DirectiveLine(pat, t, q)
             /\ \A r \in (p + 1)..(q - 1) : ~DirectiveLine(pat, t, r)
    ELSE Len(t) + 1

\* One fragment per directive line: the arguments of that line, and as content
\* the text from the end of the line to the next directive line, less one
\* trailing line feed.
RECURSIVE ByLine(_, _, _)
ByLine(pat, t, p) ==
    IF p > Len(t) THEN << >>
    ELSE IF DirectiveLine(pat, t, p)
    THEN LET g == MatchAt(pat, LineAt(t, p), 1).groups
             body == Slice(t, LineEnd(t, p) + 1, NextDirectiveLine(pat, t, p) - 1)
         IN << Fragment(g[1], g[2], SplitWs(g[3]),
                        IF EndsWith(body, NL) THEN Slice(body, 1, Len(body) - 1)
                        ELSE body,
                        None, None) >>
            \o ByLine(pat, t, NextDirectiveLine(pat, t, p))
    ELSE ByLine(pat, t, LineEnd(t, p) + 1)

\* C5: a text with N lines matching the directive pattern yields exactly N
\* fragments in document order, each with the whitespace-split arguments of its
\* line and, as content, the text up to the next directive line (or the end)
\* less one trailing line feed; text before the first directive yields nothing.
C5_FragmentPerDirectiveLine ==
    (tpc = "done" /\ ~embedded) =>
        fragments = ByLine(call.result, TextOf(source), 1)

\* --------------------------------------------------- C6: embedded extractor

LineStarts(t) == {p \in 1..Len(t) : AtLineStart(t, p)}

\* The reading of the claim: the line, less its leading whitespace, is a comment
\* marker followed by the directive, all of it on that line.
IndentedCommentLine(pat, t, p) ==
    LET line == LineAt(t, p)
        j == SkipSpaces(line, 1)
    IN MatchAt(pat, Slice(line, j, Len(line)), 1) # NoMatch

IsMarkerAt(t, p, m) ==
    \/ m = 1 /\ CharAt(t, p) = "#"
    \/ m = 2 /\ CharAt(t, p) = "/" /\ CharAt(t, p + 1) = "/"

\* A directive of the mapping can be read at q: "@", a name, and no word
\* character right after the name.
DirectiveAt(t, q, names) ==
    /\ CharAt(t, q) = "@"
    /\ \E ix \in 1..Len(names) :
          /\ StartsWithAt(t, q + 1, names[ix])
          /\ ~IsWord(CharAt(t, q + 1 + Len(names[ix])))

\* A line starts at p with a marker in its first column, followed by whitespace
\* (line feeds included) and then a directive.
MarkerFirstStart(t, p, names) ==
    /\ AtLineStart(t, p)
    /\ \E m \in 1..2 : \E w \in 0..Len(t) :
          /\ IsMarkerAt(t, p, m)
          /\ \A k \in (p + m)..(p + m + w - 1) : IsSpace(CharAt(t, k))
          /\ DirectiveAt(t, p + m + w, names)

DirectiveNames == {<<"a">>, <<"b">>}

\* Every mapping over the names: each subset of the names, in each insertion
\* order, with each choice of handlers.
Dicts ==
    {d \in UNION {[1..k -> DirectiveNames \X Handlers] : k \in 0..Cardinality(DirectiveNames)} :
        \A ix, j \in 1..Len(d) : ix # j => d[ix][1] # d[j][1]}

InitCacheSpec == InitCache /\ InitIdleText /\ InitIdleLink /\ InitIdleMd /\ InitIdleApply

\* TextExtractor.parse_fragments asks its own cache for the regex.
TextGetRegex(d) ==
    /\ call.n < MaxCalls
    /\ GetRegex("text", d)
    /\ UNCHANGED <<textVars, linkVars, mdVars, applyVars>>

\* MarkdownExtractor.parse_fragments asks its own cache before the scan.
MdGetRegex(d) ==
    /\ call.n < MaxCalls
    /\ GetRegex("md", d)
    /\ UNCHANGED <<textVars, linkVars, mdVars, applyVars>>

\* The fallback of the scan hands a code block to the embedded extractor, whose
\* parse_fragments asks the embedded extractor's cache.
EmbGetRegex(d) ==
    /\ call.n < MaxCalls
    /\ GetRegex("emb", d)
    /\ UNCHANGED <<textVars, linkVars, mdVars, applyVars>>

NextCache ==
    \E d \in Dicts : TextGetRegex(d) \/ MdGetRegex(d) \/ EmbGetRegex(d)

SpecCache == InitCacheSpec /\ [][NextCache]_vars

\* C2: once a pattern is compiled, a call whose mapping has the same set of
\* names (whatever its handlers) compiles nothing and returns the cached
\* pattern; a compilation happens only when the set of names differs.
C2_SameNamesReuseCache ==
    (call.self # "none" /\ call.before.regex # NoRegex) =>
        /\ KeySet(call.directives) = KeySet(call.before.directives) =>
               (~call.compiled /\ call.result = call.before.regex)
        /\ call.compiled =>
               KeySet(call.directives) # KeySet(call.before.directives)

NamesOf(pat) == {pat.names[ix] : ix \in 1..Len(pat.names)}

LinkAlphabet == {"%", "3", "A", ":", "s", "/"}

Links(n) == UNION {[1..k -> LinkAlphabet] : k \in 1..n}

\* external_files: absent, the empty string, or a directory.
ExternalFiles == {None, << >>, <<"/", "b">>}

\* The match of the directive `@a x` that carries the reference.
LinkMatch == MatchAt(Pattern(<< <<"a">> >>, FALSE), <<"@", "a", " ", "x">>, 1)

InitLink ==
    /\ InitCache
    /\ InitIdleText
    /\ InitIdleMd
    /\ InitIdleApply
    /\ link \in Links(MaxLinkLen)
    /\ external_files \in ExternalFiles
    /\ linkFragment = NoFragment

\* create_link_fragment(match, link, external_files)
CreateLink ==
    /\ linkFragment = NoFragment
    /\ linkFragment' = CreateLinkFragment(LinkMatch, link, external_files)
    /\ UNCHANGED <<cacheVars, textVars, link, external_files, mdVars, applyVars>>

NextLink == CreateLink

SpecLink == InitLink /\ [][NextLink]_vars

\* C1 as stated: a decoded reference without a scheme, with a base directory
\* supplied, is reported as path with url unset; every other reference is
\* reported as url, decoded, with path unset; so exactly one of the two is set.
C1_ExactlyOneOfUrlPath ==
    linkFragment # NoFragment =>
        LET url == Unquote(link)
        IN /\ (~HasScheme(url) /\ external_files # None) =>
                  (linkFragment.path # None /\ linkFragment.url = None)
           /\ ~(~HasScheme(url) /\ external_files # None) =>
                  (linkFragment.url = url /\ linkFragment.path = None)
           /\ (linkFragment.url = None) # (linkFragment.path = None)

\* C1 amended: a decoded reference with a scheme is reported as url, decoded,
\* with path unset; one without a scheme is never reported as url, and is
\* reported as path, resolved against the base, exactly when a non-empty base
\* directory was supplied; url and path are never both set.
C1_UrlOnlyWithScheme ==
    linkFragment # NoFragment =>
        LET url == Unquote(link)
            based == external_files # None /\ external_files # << >>
        IN /\ HasScheme(url) => (linkFragment.url = url /\ linkFragment.path = None)
           /\ ~HasScheme(url) =>
                 /\ linkFragment.url = None
                 /\ based => linkFragment.path = ResolvePath(external_files, url)
                 /\ ~based => linkFragment.path = None
           /\ ~(linkFragment.url # None /\ linkFragment.path # None)

\* A relative reference with an escaped character, turned into a fragment
\* without a base directory: neither url nor path is set.
C1_Witness ==
    /\ linkFragment # NoFragment
    /\ link = <<"s", "/", "%", "3">>
    /\ external_files = None
    /\ linkFragment.url = None /\ linkFragment.path = None


\* -------------------------------------------------------------- dispatcher

\* A dispatcher that passes over a fragment whose directive it does not know.
DispatchSkipUnknown ==
    /\ mpc = "running"
    /\ queue # << >>
    /\ IF HasKey(directives, Head(queue).directive)
       THEN /\ invoked' = Append(invoked, Head(queue))
            /\ assets' = Append(assets, << directives[Lookup(directives, Head(queue).directive)][2],
                                           Head(queue) >>)
       ELSE UNCHANGED <<invoked, assets>>
    /\ queue' = Tail(queue)
    /\ UNCHANGED <<mpc, directives, input, produced>>
    /\ UNCHANGED <<cacheVars, textVars, linkVars, mdVars>>

\* The body of the loop of apply_directives with a handler that returns: the
\* lookup raises KeyError for an unknown name, otherwise the handler is called
\* with the fragment and the output collections.
Dispatch ==
    /\ mpc = "running"
    /\ queue # << >>
    /\ IF HasKey(directives, Head(queue).directive)
       THEN /\ invoked' = Append(invoked, Head(queue))
            /\ assets' = Append(assets, << directives[Lookup(directives, Head(queue).directive)][2],
                                           Head(queue) >>)
            /\ mpc' = mpc
       ELSE /\ mpc' = "KeyError"
            /\ UNCHANGED <<invoked, assets>>
    /\ queue' = Tail(queue)
    /\ UNCHANGED <<directives, input, produced>>
    /\ UNCHANGED <<cacheVars, textVars, linkVars, mdVars>>

\* The same body with a handler that raises: the error leaves apply_directives.
HandlerRaises ==
    /\ mpc = "running"
    /\ queue # << >>
    /\ HasKey(directives, Head(queue).directive)
    /\ invoked' = Append(invoked, Head(queue))
    /\ mpc' = "raised"
    /\ queue' = Tail(queue)
    /\ UNCHANGED <<directives, input, produced, assets>>
    /\ UNCHANGED <<cacheVars, textVars, linkVars, mdVars>>

\* ------------------------------------------------ markdown specification

\* The blocks a document is made of.
Blocks ==
    { CodeParagraph(<<"@", "a">>),
      CodeParagraph(<<"@", "b">>),
      ImageParagraph(<<"p">>),
      LinkParagraph(<<"@", "a">>, <<"s", ":", "p">>),
      CodeBlock("fence", <<"x", NL>>),
      CodeBlock("code_block", <<"#", "@", "a", NL, "/", "/", " ", "@", "a", NL>>),
      HtmlBlock(DetailsOpen),
      HtmlBlock(DetailsClose),
      HtmlBlock(<<"<!--", " ", "@", "a", " ", "-->", NL>>) }

RECURSIVE Flatten(_)
Flatten(blocks) ==
    IF blocks = << >> THEN << >> ELSE Head(blocks) \o Flatten(Tail(blocks))

\* self.parser.parse(source) for the documents of up to MaxBlocks blocks.
Documents == {Flatten(bs) : bs \in UNION {[1..k -> Blocks] : k \in 0..MaxBlocks}}

\* The mapping of the markdown runs: "a" is a directive, "b" is not.
MdDirectives == << <<<<"a">>, "h1">> >>

\* The base directory of the markdown runs.
MdExternalFiles == <<"/", "b">>

InitMd ==
    /\ InitCache
    /\ InitIdleText
    /\ link = << >>
    /\ external_files = MdExternalFiles
    /\ linkFragment = NoFragment
    /\ tokens \in Documents
    /\ directives = MdDirectives
    /\ input = << >>
    /\ mpc = "start"
    /\ i = 0
    /\ skip = 0
    /\ embq = << >>
    /\ queue = << >>
    /\ produced = << >>
    /\ invoked = << >>
    /\ assets = << >>
    /\ trace = << >>

\* extract: apply_directives makes the output collections and asks for the
\* first fragment, which runs parse_fragments up to its loop.
Start ==
    /\ mpc = "start"
    /\ GetRegex("md", directives)
    /\ mpc' = "running"
    /\ i' = 1
    /\ skip' = 1
    /\ UNCHANGED <<textVars, linkVars, tokens, embq, trace>>
    /\ UNCHANGED <<directives, input, queue, produced, invoked, assets>>

\* An iteration of the loop over a token the last match consumed.
SkipToken ==
    /\ mpc = "running"
    /\ CanResume(queue)
    /\ embq = << >>
    /\ i <= Len(tokens)
    /\ Skipping(skip)
    /\ skip' = skip - 1
    /\ i' = i + 1
    /\ UNCHANGED <<cacheVars, textVars, linkVars, tokens, embq, trace, applyVars>>

\* What the branch taken at tokens[i] yields: its fragment for a branch of
\* 1..9, for the last branch what the embedded extractor finds in the code block.
Found(taken) ==
    IF taken \in 1..9
    THEN << BranchFragment(cache["md"].regex, tokens, taken, i, external_files) >>
    ELSE IF taken = 10
    THEN TextParseFragments(GetRegexState("emb", cache["emb"], directives).regex,
                            tokens[i].content)
    ELSE << >>

\* The first of the fragments found is yielded; the rest stay with the embedded
\* generator.
Yield(found) ==
    IF found = << >>
    THEN UNCHANGED <<queue, produced, embq>>
    ELSE /\ queue' = Append(queue, Head(found))
         /\ produced' = Append(produced, Head(found))
         /\ embq' = Tail(found)

Examine(taken, found, after) ==
    /\ skip' = after
    /\ trace' = Append(trace, [pos |-> i, branch |-> taken, found |-> found,
                               content |-> ContentIndex(taken, i), skip |-> after])
    /\ IF taken = 10 THEN GetRegex("emb", directives) ELSE UNCHANGED cacheVars
    /\ Yield(found)

ScanBranch(taken) == Examine(taken, Found(taken), SkipAfter(tokens, taken, i))

\* An iteration of the loop that runs the if/elif chain on tokens[i]. A branch
\* of 1..9 yields its fragment; the last branch hands the code block to the
\* embedded extractor and yields what that yields, one fragment at a time.
ScanToken ==
    /\ mpc = "running"
    /\ CanResume(queue)
    /\ embq = << >>
    /\ i <= Len(tokens)
    /\ ~Skipping(skip)
    /\ ScanBranch(BranchTaken(cache["md"].regex, tokens, i))
    /\ i' = i + 1
    /\ UNCHANGED <<textVars, linkVars, tokens, directives, input, mpc, invoked, assets>>

\* next() on a generator suspended inside the embedded extractor's loop.
ResumeEmbedded ==
    /\ mpc = "running"
    /\ CanResume(queue)
    /\ embq # << >>
    /\ queue' = Append(queue, Head(embq))
    /\ produced' = Append(produced, Head(embq))
    /\ embq' = Tail(embq)
    /\ UNCHANGED <<cacheVars, textVars, linkVars, tokens, i, skip, trace>>
    /\ UNCHANGED <<directives, input, mpc, invoked, assets>>

\* The loop over the tokens ends, the generator is exhausted and
\* apply_directives returns the output collections.
Exhaust ==
    /\ mpc = "running"
    /\ CanResume(queue)
    /\ embq = << >>
    /\ i > Len(tokens)
    /\ mpc' = "returned"
    /\ UNCHANGED <<cacheVars, textVars, linkVars, mdVars>>
    /\ UNCHANGED <<directives, input, queue, produced, invoked, assets>>

NextMd ==
    \/ Start
    \/ SkipToken
    \/ ScanToken
    \/ ResumeEmbedded
    \/ Exhaust
    \/ Dispatch
    \/ HandlerRaises

SpecMd == InitMd /\ [][NextMd]_vars

\* The regex parse_fragments got from get_regex.
MdRegex == cache["md"].regex

\* The patterns of 1..hi whose whole condition holds at a position.
Matching(at, hi) == {k \in 1..hi : BranchHolds(MdRegex, tokens, k, at)}

IsBare(f) == f.content = None /\ f.url = None /\ f.path = None

\* What the claim says of a scan position that found the fragments `found`
\* through branch `taken`, where the patterns `matching` match.
OneFragment(taken, found, matching) ==
    /\ Len(found) <= 1
    /\ matching # {} =>
          /\ taken = Least(matching)
          /\ Len(found) = 1
          /\ IsBare(found[1]) => matching \cap 1..7 = {}

LowestPattern(at, taken, found, matching) ==
    /\ matching # {} =>
          /\ taken = Least(matching)
          /\ found = << BranchFragment(MdRegex, tokens, taken, at, external_files) >>
          /\ taken \in {8, 9} <=> IsBare(found[1])
          /\ IsBare(found[1]) => matching \cap 1..7 = {}
    /\ matching = {} =>
          /\ taken \in {0, 10}
          /\ taken = 0 => found = << >>
          /\ taken = 10 <=> tokens[at].type \in CodeTypes[1]
          /\ taken = 10 =>
                found = TextParseFragments(Pattern(Keys(directives), TRUE), tokens[at].content)

Consumed(k) == IF k \in 1..8 THEN Len(ShapeTypes(k)) ELSE 1

\* C4 as stated: after a match the scan advances by the number of top-level
\* tokens of the matched shape, and by one token where no pattern matches.
C4_AdvanceOneWhenUnmatched ==
    /\ Len(trace) >= 1 => trace[1].pos = 1
    /\ \A n \in 1..(Len(trace) - 1) :
          trace[n + 1].pos = trace[n].pos + Consumed(trace[n].branch)

\* C4, amended: after a match the scan advances by the number of top-level
\* tokens of the matched shape; where no pattern matches it advances by one
\* token, except at a paragraph (paragraph_open, inline, paragraph_close) that
\* is not a directive, where it advances past the three tokens of the paragraph.
\* A directive paragraph followed by a code block is one scan position of four
\* tokens, and the token after the code block is the next scan position.
C4_AdvancePastShape ==
    /\ Len(trace) >= 1 => trace[1].pos = 1
    /\ \A n \in 1..(Len(trace) - 1) :
          /\ trace[n].branch # 0 =>
                trace[n + 1].pos = trace[n].pos + Consumed(trace[n].branch)
          /\ trace[n].branch = 0 =>
                trace[n + 1].pos = trace[n].pos +
                    (IF Shape(tokens, 8, trace[n].pos) # 0 THEN 3 ELSE 1)
    /\ \A n \in 1..Len(trace) :
          /\ trace[n].skip = (IF trace[n].branch \in 1..8
                              THEN Consumed(trace[n].branch)
                              ELSE Shape(tokens, 8, trace[n].pos))
          /\ trace[n].branch = 1 /\ trace[n].pos + 4 < i =>
                \E m \in 1..Len(trace) : trace[m].pos = trace[n].pos + 4

\* A directive paragraph, a code block, an image paragraph: pattern 1 took the
\* first four tokens and the image paragraph was examined at token 5, matched
\* nothing, and the scan went on from token 8.
C4_Witness ==
    /\ Len(tokens) >= 8
    /\ SubSeq(tokens, 1, 7) = Flatten(<< CodeParagraph(<<"@", "a">>),
                                         CodeBlock("fence", <<"x", NL>>),
                                         ImageParagraph(<<"p">>) >>)
    /\ Len(trace) >= 3
    /\ trace[1].pos = 1 /\ trace[1].branch = 1
    /\ trace[2].pos = 5 /\ trace[2].branch = 0
    /\ trace[3].pos = 8

\* The positions of the code blocks of the document.
CodeBlocks == {f \in 1..Len(tokens) : tokens[f].type \in CodeTypes[1]}

\* How many fragments took the token at f as their content, and how many
\* times the embedded extractor scanned it.
UsedAsContent(f) == Cardinality({n \in 1..Len(trace) : trace[n].content = f})

Rescanned(f) ==
    Cardinality({n \in 1..Len(trace) : trace[n].branch = 10 /\ trace[n].pos = f})

\* C9: each fence/code_block token is handled exactly one way. It is never both
\* the content of a fragment and rescanned, nor either of them twice; once the
\* loop is past it, it has been the content of exactly one fragment of pattern
\* 1, 3 or 6 or has been rescanned exactly once by the embedded extractor, also
\* where the tokens before it have the shape of pattern 1, 3 or 6 without
\* being a known directive.
C9_CodeBlockHandledOnce ==
    \A f \in CodeBlocks :
        /\ UsedAsContent(f) + Rescanned(f) <= 1
        /\ f < i => UsedAsContent(f) + Rescanned(f) = 1
        /\ \A n \in 1..Len(trace) :
              trace[n].content = f =>
                  /\ trace[n].branch \in {1, 3, 6}
                  /\ trace[n].found[1].content = tokens[f].content

\* A run to the end over a document where a paragraph that is no directive
\* stands before a code block (the shape of pattern 1) and the code block was
\* rescanned, and where another code block became the content of a fragment.
C9_Witness ==
    /\ mpc = "returned"
    /\ \E n, m \in 1..Len(trace) :
          /\ trace[n].branch = 0
          /\ Shape(tokens, 1, trace[n].pos) # 0
          /\ trace[m].branch = 10
          /\ trace[m].pos = trace[n].pos + 3
    /\ \E f \in CodeBlocks : UsedAsContent(f) = 1

RECURSIVE Emitted(_)
\* The number of fragments the scan positions of a trace have found.
Emitted(t) == IF t = << >> THEN 0 ELSE Len(Head(t).found) + Emitted(Tail(t))

\* directives[fragment.directive]
HandlerOf(f) == directives[Lookup(directives, f.directive)][2]

\* C8: extraction and dispatch are interleaved one fragment at a time. The
\* handler of fragment k is invoked before fragment k+1 is produced; handlers
\* are invoked once per fragment in emission order; the mutations of the output
\* collections are those of the fragments already handed to a handler; and a
\* failure at fragment k leaves no fragment after k produced or handled.
C8_InterleavedDispatch ==
    /\ Len(queue) <= 1
    /\ produced = invoked \o queue
    /\ Len(produced) + Len(embq) = Emitted(trace)
    /\ assets = [n \in 1..Len(assets) |-> << HandlerOf(invoked[n]), invoked[n] >>]
    /\ mpc # "raised" => Len(assets) = Len(invoked)
    /\ mpc = "raised" =>
          /\ Len(assets) = Len(invoked) - 1
          /\ queue = << >>
    /\ mpc = "returned" =>
          /\ queue = << >> /\ embq = << >>
          /\ invoked = produced

\* The handler of the second fragment raised while the document still had
\* tokens to scan and the embedded extractor a fragment to give: the first
\* fragment's mutation is there, nothing of a later fragment is.
C8_Witness ==
    /\ mpc = "raised"
    /\ Len(invoked) = 2
    /\ Len(assets) = 1
    /\ embq # << >>
    /\ i <= Len(tokens)

\* ---------------------------------------------- dispatch specification

\* The fragments an iterable can hand to apply_directives.
InputFragments == {Fragment(name, None, << >>, None, None, None) : name \in DirectiveNames}

Inputs == UNION {[1..k -> InputFragments] : k \in 0..MaxFragments}

\* apply_directives(directives, fragments) on a list of fragments, after the
\* output collections are made.
InitApply ==
    /\ InitCache
    /\ InitIdleText
    /\ InitIdleLink
    /\ InitIdleMd
    /\ directives \in Dicts
    /\ input \in Inputs
    /\ mpc = "running"
    /\ queue = << >>
    /\ produced = << >>
    /\ invoked = << >>
    /\ assets = << >>

\* The for loop takes the next fragment of the list.
ListNext ==
    /\ mpc = "running"
    /\ queue = << >>
    /\ Len(produced) < Len(input)
    /\ queue' = << input[Len(produced) + 1] >>
    /\ produced' = Append(produced, input[Len(produced) + 1])
    /\ UNCHANGED <<directives, input, mpc, invoked, assets>>
    /\ UNCHANGED <<cacheVars, textVars, linkVars, mdVars>>

\* The list is exhausted and apply_directives returns the output collections.
ListEnd ==
    /\ mpc = "running"
    /\ queue = << >>
    /\ Len(produced) = Len(input)
    /\ mpc' = "returned"
    /\ UNCHANGED <<directives, input, queue, produced, invoked, assets>>
    /\ UNCHANGED <<cacheVars, textVars, linkVars, mdVars>>

NextApply ==
    \/ ListNext
    \/ ListEnd
    \/ Dispatch
    \/ HandlerRaises

SpecApply == InitApply /\ [][NextApply]_vars

\* The fragments of the input whose name the mapping does not have.
Unknown == {k \in 1..Len(input) : ~HasKey(directives, input[k].directive)}

\* C7: a fragment whose directive name is absent from the mapping ends the
\* call in an error state distinct from a normal return. No handler is invoked
\* for it or for a later fragment and the output collections hold nothing of
\* them; the handlers of the earlier fragments were each invoked once, in
\* order. The fragment is not passed over: a call returns only if every name
\* is in the mapping.
C7_UnknownDirectiveFails ==
    /\ mpc = "KeyError" =>
          /\ Unknown # {}
          /\ Len(produced) = Least(Unknown)
          /\ queue = << >>
          /\ invoked = SubSeq(input, 1, Least(Unknown) - 1)
          /\ assets = [n \in 1..(Least(Unknown) - 1) |-> << HandlerOf(input[n]), input[n] >>]
    /\ mpc = "returned" =>
          /\ Unknown = {}
          /\ invoked = input
    /\ mpc = "running" /\ Unknown # {} => Len(invoked) < Least(Unknown)

\* The second of three fragments has a name the mapping lacks: the first was
\* handled, the third was never taken from the list.
C7_Witness ==
    /\ mpc = "KeyError"
    /\ Len(input) = 3
    /\ Len(produced) = 2
    /\ Len(invoked) = 1
    /\ Len(assets) = 1

====
